---------------------------- MODULE Spec2Model ----------------------------
(***************************************************************************)
(* Model of tools/apply_patch.py: the patch parser (parse_patch), the hunk *)
(* decoder, the sequence matcher and the operation applier, run by main;   *)
(* and of loctree.py: the directory walk of collect_lines.                 *)
(*                                                                         *)
(* Text is a sequence of one-character strings; a line is such a sequence  *)
(* without line breaks.  The string "BOM" stands for the character U+FEFF. *)
(* Python's None is the value None for a string; an optional integer is    *)
(* <<>> (None) or <<n>>.  Python indices are 0-based; sequence indices     *)
(* here are 1-based, positions returned by find_sequence stay 0-based.     *)
(***************************************************************************)
EXTENDS Integers, Sequences, FiniteSets, TLC

\* ------------------------------------------------------------------------
\* Bounds of the model
\* ------------------------------------------------------------------------

\* Largest number of operation fragments in a document of the main pipeline.
MaxOps == 2

\* Largest number of lines in a free-form document given to the parser.
MaxDocLines == 4

\* Largest number of characters of a target file in the update checks.
MaxTextLen == 3

\* Largest number of raw lines of a hunk in the update checks.
MaxHunkRows == 2

\* ------------------------------------------------------------------------
\* Strings
\* ------------------------------------------------------------------------

None == <<"<None>">>

BEGIN == <<"*", "*", "*", " ", "B", "e", "g", "i", "n", " ", "P", "a", "t", "c", "h">>

END == <<"*", "*", "*", " ", "E", "n", "d", " ", "P", "a", "t", "c", "h">>

ADD == <<"*", "*", "*", " ", "A", "d", "d", " ", "F", "i", "l", "e", ":">>

UPDATE == <<"*", "*", "*", " ", "U", "p", "d", "a", "t", "e", " ", "F", "i", "l", "e", ":">>

DELETE == <<"*", "*", "*", " ", "D", "e", "l", "e", "t", "e", " ", "F", "i", "l", "e", ":">>

MOVE == <<"*", "*", "*", " ", "M", "o", "v", "e", " ", "t", "o", ":">>

\* The prefix "*** " that ends an Add payload or an Update body.
DIRECTIVE_PREFIX == <<"*", "*", "*", " ">>

\* The literal "*** End of File" compared in the Update body.
END_OF_FILE == <<"*", "*", "*", " ", "E", "n", "d", " ", "o", "f", " ", "F", "i", "l", "e">>

\* The placeholder header "@@".
AT_AT == <<"@", "@">>

Digits == {"0", "1", "2", "3", "4", "5", "6", "7", "8", "9"}

DigitVal(c) ==
  CASE c = "0" -> 0 [] c = "1" -> 1 [] c = "2" -> 2 [] c = "3" -> 3 [] c = "4" -> 4
    [] c = "5" -> 5 [] c = "6" -> 6 [] c = "7" -> 7 [] c = "8" -> 8 [] c = "9" -> 9

\* str.isspace() on the characters the model uses.
IsSpace(c) == c \in {" ", "\t", "\n", "\r", "\f"}

Max(a, b) == IF a >= b THEN a ELSE b

Min(a, b) == IF a <= b THEN a ELSE b

\* s[n:] for 0 <= n.
Drop(s, n) == SubSeq(s, n + 1, Len(s))

\* s[:n] for 0 <= n.
Take(s, n) == SubSeq(s, 1, Min(n, Len(s)))

StartsWith(s, p) == Len(s) >= Len(p) /\ SubSeq(s, 1, Len(p)) = p

RECURSIVE LStrip(_)
LStrip(s) == IF s # <<>> /\ IsSpace(Head(s)) THEN LStrip(Tail(s)) ELSE s

RECURSIVE RStrip(_)
RStrip(s) ==
  IF s # <<>> /\ IsSpace(s[Len(s)]) THEN RStrip(SubSeq(s, 1, Len(s) - 1)) ELSE s

\* str.strip()
Strip(s) == RStrip(LStrip(s))

\* str.lstrip of the byte-order mark
RECURSIVE LStripBom(_)
LStripBom(s) == IF s # <<>> /\ Head(s) = "BOM" THEN LStripBom(Tail(s)) ELSE s

\* text.replace("\r\n", "\n").replace("\r", "\n"): a line feed that follows
\* a carriage return goes, every carriage return becomes a line feed.
ReplaceCr(t) ==
  LET kept == SelectSeq([i \in 1..Len(t) |-> i],
                        LAMBDA i : ~(t[i] = "\n" /\ i > 1 /\ t[i - 1] = "\r"))
  IN [k \in 1..Len(kept) |-> IF t[kept[k]] = "\r" THEN "\n" ELSE t[kept[k]]]

\* The pieces of t between the characters of the set seps (str.split for one
\* separator): one more piece than there are separators.
SplitAt(t, seps) ==
  LET brk == SelectSeq([i \in 1..Len(t) |-> i], LAMBDA i : t[i] \in seps)
  IN [k \in 1..(Len(brk) + 1) |->
        SubSeq(t,
               IF k = 1 THEN 1 ELSE brk[k - 1] + 1,
               IF k <= Len(brk) THEN brk[k] - 1 ELSE Len(t))]

\* text.split("\n")
SplitLf(t) == SplitAt(t, {"\n"})

\* "\n".join(lines)
RECURSIVE JoinLf(_)
JoinLf(lines) ==
  IF lines = <<>> THEN <<>>
  ELSE IF Len(lines) = 1 THEN lines[1]
       ELSE lines[1] \o <<"\n">> \o JoinLf(Tail(lines))

normalize_lines(text) ==
  LET split == SplitLf(ReplaceCr(text))
      popped == IF split # <<>> /\ split[Len(split)] = <<>>
                THEN SubSeq(split, 1, Len(split) - 1) ELSE split
  IN IF popped # <<>> /\ StartsWith(popped[1], <<"BOM">>)
     THEN <<LStripBom(popped[1])>> \o Tail(popped)
     ELSE popped

\* ------------------------------------------------------------------------
\* Errors
\* ------------------------------------------------------------------------

NoError == [type |-> "none", msg |-> "", path |-> None]

\* raise PatchError(msg), the message naming path where the code formats it in.
PatchError(msg, path) == [type |-> "PatchError", msg |-> msg, path |-> path]

\* An exception of the OSError family raised by pathlib, which the code
\* neither catches nor converts.
OSError(msg, path) == [type |-> "OSError", msg |-> msg, path |-> path]

\* ------------------------------------------------------------------------
\* Hunk headers
\* ------------------------------------------------------------------------

RECURSIVE DigitRun(_)
\* The length of the longest prefix of s made of digits.
DigitRun(s) == IF s # <<>> /\ Head(s) \in Digits THEN 1 + DigitRun(Tail(s)) ELSE 0

RECURSIVE IntOf(_, _)
\* int(s) for a string of digits, acc being the value read so far.
IntOf(s, acc) == IF s = <<>> THEN acc ELSE IntOf(Tail(s), 10 * acc + DigitVal(Head(s)))

\* The rest of s after "\d+(?:,\d+)?", or None when "\d+" does not match.
AfterRange(s) ==
  LET n == DigitRun(s)
      r == Drop(s, n)
      m == IF r # <<>> /\ Head(r) = "," THEN DigitRun(Tail(r)) ELSE 0
  IN IF n = 0 THEN None
     ELSE IF m > 0 THEN Drop(r, 1 + m) ELSE r

\* HUNK_HEADER_RE.match(s): <<orig>> when the pattern matches at the start of
\* s, <<>> when it does not.
HunkHeaderMatch(s) ==
  IF ~StartsWith(s, <<"@", "@", " ", "-">>) THEN <<>>
  ELSE LET r1 == Drop(s, 4)
           a1 == AfterRange(r1)
       IN IF a1 = None \/ ~StartsWith(a1, <<" ", "+">>) THEN <<>>
          ELSE LET a2 == AfterRange(Drop(a1, 2))
               IN IF a2 = None \/ ~StartsWith(a2, <<" ", "@", "@">>) THEN <<>>
                  ELSE <<IntOf(Take(r1, DigitRun(r1)), 0)>>

\* Hunk(header, lines) with __post_init__'s original_start.
Hunk(header, lines) ==
  [header |-> header, lines |-> lines, original_start |-> HunkHeaderMatch(Strip(header))]

\* Operation(kind, path, new_path, payload)
Operation(kind, path, new_path, payload) ==
  [kind |-> kind, path |-> path, new_path |-> new_path, payload |-> payload]

\* ------------------------------------------------------------------------
\* Hunk decoder
\* ------------------------------------------------------------------------

RECURSIVE DecodeFrom(_, _, _)
\* The loop of decode_hunk_lines over the rows left, original and replacement
\* being the lists built so far.
DecodeFrom(rows, original, replacement) ==
  IF rows = <<>>
  THEN [error |-> NoError, original |-> original, replacement |-> replacement]
  ELSE LET row == Head(rows)
       IN IF row = <<>>
          THEN [error |-> PatchError("Malformed hunk line", None),
                original |-> original, replacement |-> replacement]
          ELSE IF StartsWith(row, <<"\\", " ">>)
          THEN DecodeFrom(Tail(rows), original, replacement)
          ELSE LET prefix == row[1]
                   content == Tail(row)
               IN IF prefix = " "
                  THEN DecodeFrom(Tail(rows), Append(original, content),
                                  Append(replacement, content))
                  ELSE IF prefix = "-"
                  THEN DecodeFrom(Tail(rows), Append(original, content), replacement)
                  ELSE IF prefix = "+"
                  THEN DecodeFrom(Tail(rows), original, Append(replacement, content))
                  ELSE [error |-> PatchError("Unsupported hunk prefix", None),
                        original |-> original, replacement |-> replacement]

\* Mutant of decode_hunk_lines: the "\\ " lines are not skipped, their
\* backslash is taken for a tag.
decode_hunk_lines_marker_as_tag(lines) ==
  DecodeFrom([i \in 1..Len(lines) |->
                IF StartsWith(lines[i], <<"\\", " ">>) THEN <<"\\">> ELSE lines[i]],
             <<>>, <<>>)

decode_hunk_lines(lines) == DecodeFrom(lines, <<>>, <<>>)

\* ------------------------------------------------------------------------
\* Sequence matcher
\* ------------------------------------------------------------------------

\* list(range(a, b))
Range(a, b) == [k \in 1..Max(b - a, 0) |-> a + k - 1]

\* lines[pos:pos + n] for 0 <= pos, clipped to the list as a Python slice is.
Slice(lines, pos, n) == SubSeq(lines, pos + 1, Min(pos + n, Len(lines)))

RECURSIVE FirstMatch(_, _, _)
\* The loop over positions: the first pos whose slice equals seq.
FirstMatch(positions, lines, seq) ==
  IF positions = <<>>
  THEN [error |-> PatchError("Failed to match patch hunk context", None), idx |-> 0]
  ELSE IF Slice(lines, Head(positions), Len(seq)) = seq
       THEN [error |-> NoError, idx |-> Head(positions)]
       ELSE FirstMatch(Tail(positions), lines, seq)

\* Mutant of Positions: with a hint the positions below it are left out.
PositionsFromHintOnly(max_start, start_hint) ==
  IF start_hint # <<>>
  THEN Range(Max(0, Min(start_hint[1], max_start)), max_start + 1)
  ELSE Range(0, max_start + 1)

\* The candidate positions find_sequence builds for a non-empty seq.
Positions(max_start, start_hint) ==
  IF start_hint # <<>>
  THEN LET start == Max(0, Min(start_hint[1], max_start))
       IN Range(start, max_start + 1) \o (IF start > 0 THEN Range(0, start) ELSE <<>>)
  ELSE Range(0, max_start + 1)

find_sequence(lines, seq, start_hint) ==
  IF seq = <<>>
  THEN IF start_hint # <<>>
       THEN [error |-> NoError, idx |-> Max(0, Min(start_hint[1], Len(lines)))]
       ELSE [error |-> NoError, idx |-> Len(lines)]
  ELSE LET max_start == Len(lines) - Len(seq)
       IN IF max_start < 0
          THEN [error |-> PatchError("Patch hunk longer than target file", None), idx |-> 0]
          ELSE FirstMatch(Positions(max_start, start_hint), lines, seq)

\* ------------------------------------------------------------------------
\* Filesystem
\* ------------------------------------------------------------------------

\* Path components the model's documents name.
NameA == <<"a">>

NameB == <<"b">>

NameC == <<"c">>

NameD == <<"d">>

\* The locations of the working directory's tree: a, b, d and d/c.
Locs == {<<NameA>>, <<NameB>>, <<NameD>>, <<NameD, NameC>>}

RECURSIVE DropEmptyAndDot(_)
DropEmptyAndDot(parts) ==
  IF parts = <<>> THEN <<>>
  ELSE IF Head(parts) = <<>> \/ Head(parts) = <<".">> THEN DropEmptyAndDot(Tail(parts))
       ELSE <<Head(parts)>> \o DropEmptyAndDot(Tail(parts))

\* Path(s) for a relative path: its components, pathlib dropping empty and
\* "." components.  <<>> is the working directory.
Path(s) == DropEmptyAndDot(SplitAt(s, {"/"}))

\* path.parent
Parent(loc) == SubSeq(loc, 1, Len(loc) - 1)

NoNode == [kind |-> "none", text |-> <<>>]

DirNode == [kind |-> "dir", text |-> <<>>]

FileNode(text) == [kind |-> "file", text |-> text]

KindOf(fs, loc) == IF loc = <<>> THEN "dir" ELSE fs[loc].kind

\* path.exists()
Exists(fs, loc) == KindOf(fs, loc) # "none"

\* path.is_file()
IsFile(fs, loc) == KindOf(fs, loc) = "file"

\* What every filesystem satisfies: an entry exists only inside a directory.
WellFormedFs(fs) == \A loc \in Locs : Exists(fs, loc) => KindOf(fs, Parent(loc)) = "dir"

RECURSIVE MkdirParents(_, _)
\* dir.mkdir(parents=True, exist_ok=True)
MkdirParents(fs, dir) ==
  IF KindOf(fs, dir) = "dir" THEN [error |-> NoError, fs |-> fs]
  ELSE IF KindOf(fs, dir) = "file"
  THEN [error |-> OSError("FileExistsError", dir), fs |-> fs]
  ELSE LET up == MkdirParents(fs, Parent(dir))
       IN IF up.error # NoError THEN up
          ELSE [error |-> NoError, fs |-> [up.fs EXCEPT ![dir] = DirNode]]

ensure_parent(fs, loc) == MkdirParents(fs, Parent(loc))

\* path.write_text(text) where the parent directory exists.
WriteText(fs, loc, text) ==
  IF KindOf(fs, loc) = "dir"
  THEN [error |-> OSError("IsADirectoryError", loc), fs |-> fs]
  ELSE [error |-> NoError, fs |-> [fs EXCEPT ![loc] = FileNode(text)]]

\* What open() in text mode returns for the stored characters: universal
\* newlines turn "\r\n" and "\r" into "\n".
ReadText(stored) == ReplaceCr(stored)

write_file(fs, loc, lines) ==
  LET made == ensure_parent(fs, loc)
      text == JoinLf(lines) \o (IF lines # <<>> THEN <<"\n">> ELSE <<>>)
  IN IF made.error # NoError THEN made ELSE WriteText(made.fs, loc, text)

\* Mutant of delete_file: a missing target is passed over in silence.
delete_file_missing_ok(fs, loc, path) ==
  IF ~Exists(fs, loc) THEN [error |-> NoError, fs |-> fs]
  ELSE IF IsFile(fs, loc)
  THEN [error |-> NoError, fs |-> [fs EXCEPT ![loc] = NoNode]]
  ELSE [error |-> PatchError("Cannot delete non-file path", path), fs |-> fs]

delete_file(fs, loc, path) ==
  IF ~Exists(fs, loc)
  THEN [error |-> PatchError("Cannot delete missing file", path), fs |-> fs]
  ELSE IF IsFile(fs, loc)
  THEN [error |-> NoError, fs |-> [fs EXCEPT ![loc] = NoNode]]
  ELSE [error |-> PatchError("Cannot delete non-file path", path), fs |-> fs]

\* Mutant of Rename: the file is copied to the new path and stays at the old.
RenameCopies(fs, src, dst) ==
  IF src = dst THEN [error |-> NoError, fs |-> fs]
  ELSE IF KindOf(fs, dst) = "dir"
  THEN [error |-> OSError("IsADirectoryError", dst), fs |-> fs]
  ELSE [error |-> NoError, fs |-> [fs EXCEPT ![dst] = fs[src]]]

\* target.rename(new) for a target that is a regular file (POSIX rename).
Rename(fs, src, dst) ==
  IF src = dst THEN [error |-> NoError, fs |-> fs]
  ELSE IF KindOf(fs, dst) = "dir"
  THEN [error |-> OSError("IsADirectoryError", dst), fs |-> fs]
  ELSE [error |-> NoError, fs |-> [fs EXCEPT ![dst] = fs[src], ![src] = NoNode]]

\* ------------------------------------------------------------------------
\* Update
\* ------------------------------------------------------------------------

\* The characters str.splitlines() breaks a line at, among those of the model.
LineBreaks == {"\n", "\r", "\f"}

\* text.splitlines(): the pieces between line breaks ("\r\n" being one
\* break), without the empty piece after a final break.
SplitLines(t) ==
  LET pieces == SplitAt(ReplaceCr(t), LineBreaks)
  IN IF pieces[Len(pieces)] = <<>> THEN SubSeq(pieces, 1, Len(pieces) - 1) ELSE pieces

\* text.endswith("\n")
EndsWithLf(t) == t # <<>> /\ t[Len(t)] = "\n"

\* Mutant of Splice: the matched range is kept and the replacement put in
\* front of it.
SpliceKeepsOriginal(lines, idx, n, replacement) ==
  Take(lines, idx) \o replacement \o Drop(lines, idx)

\* lines[idx:idx + n] = replacement
Splice(lines, idx, n, replacement) ==
  Take(lines, idx) \o replacement \o Drop(lines, idx + n)

\* hint = max(original_start - 1 + line_delta, 0), or None without a start.
HintOf(hunk, line_delta) ==
  IF hunk.original_start # <<>>
  THEN <<Max(hunk.original_start[1] - 1 + line_delta, 0)>>
  ELSE <<>>

RECURSIVE ApplyHunks(_, _, _)
\* The loop of apply_update over the hunks left; lines and line_delta are
\* the buffer and the delta so far.  On an error the buffer is what the
\* earlier hunks made of it.
ApplyHunks(hunks, lines, line_delta) ==
  IF hunks = <<>> THEN [error |-> NoError, lines |-> lines, line_delta |-> line_delta]
  ELSE LET hunk == Head(hunks)
           dec == decode_hunk_lines(hunk.lines)
           found == find_sequence(lines, dec.original, HintOf(hunk, line_delta))
       IN IF dec.error # NoError
          THEN [error |-> dec.error, lines |-> lines, line_delta |-> line_delta]
          ELSE IF found.error # NoError
          THEN [error |-> found.error, lines |-> lines, line_delta |-> line_delta]
          ELSE ApplyHunks(Tail(hunks),
                          Splice(lines, found.idx, Len(dec.original), dec.replacement),
                          IF hunk.original_start # <<>>
                          THEN line_delta + Len(dec.replacement) - Len(dec.original)
                          ELSE line_delta)

\* The text apply_update writes for the final buffer.
NewText(lines, trailing_newline) ==
  JoinLf(lines) \o (IF trailing_newline \/ lines = <<>> THEN <<"\n">> ELSE <<>>)

\* Mutant of apply_update: the buffer is written back after a failed hunk
\* too.
apply_update_writes_on_failure(fs, loc, path, hunks) ==
  IF ~Exists(fs, loc)
  THEN [error |-> PatchError("Cannot update missing file", path), fs |-> fs, lines |-> <<>>]
  ELSE IF KindOf(fs, loc) = "dir"
  THEN [error |-> OSError("IsADirectoryError", loc), fs |-> fs, lines |-> <<>>]
  ELSE LET text == ReadText(fs[loc].text)
           done == ApplyHunks(hunks, SplitLines(text), 0)
           wrote == WriteText(fs, loc, NewText(done.lines, EndsWithLf(text)))
       IN [error |-> IF done.error # NoError THEN done.error ELSE wrote.error,
           fs |-> wrote.fs, lines |-> done.lines]

\* apply_update(path, hunks): the error raised (or none), the filesystem left
\* and the in-memory buffer when the function ends.
apply_update(fs, loc, path, hunks) ==
  IF ~Exists(fs, loc)
  THEN [error |-> PatchError("Cannot update missing file", path), fs |-> fs, lines |-> <<>>]
  ELSE IF KindOf(fs, loc) = "dir"
  THEN [error |-> OSError("IsADirectoryError", loc), fs |-> fs, lines |-> <<>>]
  ELSE LET text == ReadText(fs[loc].text)
           trailing_newline == EndsWithLf(text)
           done == ApplyHunks(hunks, SplitLines(text), 0)
       IN IF done.error # NoError
          THEN [error |-> done.error, fs |-> fs, lines |-> done.lines]
          ELSE LET wrote == WriteText(fs, loc, NewText(done.lines, trailing_newline))
               IN [error |-> wrote.error, fs |-> wrote.fs, lines |-> done.lines]

\* ------------------------------------------------------------------------
\* State
\* ------------------------------------------------------------------------

VARIABLES
  text,        \* the patch text main read
  pc,          \* where main is: "start", "top", "add", "update" (parse_patch),
               \* "apply", "rename" (apply_operations), "done", "failed"
  parser,      \* the locals of parse_patch
  operations,  \* the list parse_patch accumulates and apply_operations walks
  opi,         \* apply_operations: the 1-based index of the operation at hand
  fs,          \* the filesystem
  error,       \* the exception that ended main, NoError while there is none
  buffer,      \* the line buffer of the last apply_update when it ended
  fs0,         \* the filesystem main started with (history)
  applied,     \* the indices of the operations carried out, in order (history)
  tree,        \* loctree.collect_lines: its arguments, locals and results
  upd          \* apply_update run statement by statement: its arguments and
               \* locals, those of the find_sequence it calls, and the file

vars == <<text, pc, parser, operations, opi, fs, error, buffer, fs0, applied, tree, upd>>

patchVars == <<text, pc, parser, operations, opi, fs, error, buffer, fs0, applied>>

\* apply_update is not run statement by statement.
NoUpdate == [pc |-> "idle"]

\* collect_lines is not running.
NoWalk == [pc |-> "idle"]

\* The locals of parse_patch before the first directive.
InitParser ==
  [lines |-> <<>>, idx |-> 0, path |-> None, payload |-> <<>>, new_path |-> None,
   hunks |-> <<>>, current_header |-> None, current_lines |-> <<>>,
   chunk_started |-> FALSE]

\* lines[idx]
Row == parser.lines[parser.idx + 1]

AtEnd == parser.idx >= Len(parser.lines)

\* The inner loops stop: idx >= len(lines) or the row starts with "*** ".
BodyEnds == IF AtEnd THEN TRUE ELSE StartsWith(Row, DIRECTIVE_PREFIX)

\* raise exc out of main
Raise(exc) == pc' = "failed" /\ error' = exc

applyVars == <<opi, fs, buffer, fs0, applied>>

parseVars == <<parser, operations>>

\* ------------------------------------------------------------------------
\* parse_patch
\* ------------------------------------------------------------------------

RECURSIVE SkipBlank(_, _)
\* The first index at or after idx whose line is not blank, or len(lines).
SkipBlank(lines, idx) ==
  IF idx < Len(lines) /\ Strip(lines[idx + 1]) = <<>> THEN SkipBlank(lines, idx + 1)
  ELSE idx

\* Lines 82-88: normalise, skip the leading blank lines, require the Begin
\* marker.
ParseBegin ==
  /\ pc = "start"
  /\ LET lines == normalize_lines(text)
         idx == SkipBlank(lines, 0)
     IN IF idx >= Len(lines) \/ Strip(lines[idx + 1]) # BEGIN
        THEN /\ Raise(PatchError("Patch must start with '*** Begin Patch'", None))
             /\ parser' = [parser EXCEPT !.lines = lines, !.idx = idx]
        ELSE /\ pc' = "top"
             /\ parser' = [parser EXCEPT !.lines = lines, !.idx = idx + 1]
             /\ UNCHANGED error
  /\ UNCHANGED <<upd, tree, text, operations, applyVars>>

\* Lines 92-94: a blank line at top level is skipped.
TopBlank ==
  /\ pc = "top" /\ ~AtEnd
  /\ Strip(Row) = <<>>
  /\ parser' = [parser EXCEPT !.idx = @ + 1]
  /\ UNCHANGED <<upd, tree, text, pc, operations, error, applyVars>>

\* Lines 95-96 and main's line 277: the End marker returns the operations,
\* which main hands to apply_operations.
TopEnd ==
  /\ pc = "top" /\ ~AtEnd
  /\ Strip(Row) = END
  /\ pc' = "apply"
  /\ opi' = 1
  /\ UNCHANGED <<upd, tree, text, parser, operations, error, fs, buffer, fs0, applied>>

\* A top-level line that is neither blank nor the End marker.
IsDirectiveLine == pc = "top" /\ ~AtEnd /\ Strip(Row) # <<>> /\ Strip(Row) # END

\* Lines 98-101: an Add File directive opens a payload.
TopAdd ==
  /\ IsDirectiveLine
  /\ StartsWith(Row, ADD)
  /\ pc' = "add"
  /\ parser' = [parser EXCEPT !.path = Strip(Drop(Row, Len(ADD))), !.idx = @ + 1,
                              !.payload = <<>>]
  /\ UNCHANGED <<upd, tree, text, operations, error, applyVars>>

\* Lines 102-109, a payload row that starts with "+".
AddPayloadLine ==
  /\ pc = "add" /\ ~AtEnd
  /\ ~StartsWith(Row, DIRECTIVE_PREFIX)
  /\ StartsWith(Row, <<"+">>)
  /\ parser' = [parser EXCEPT !.payload = Append(@, Tail(Row)), !.idx = @ + 1]
  /\ UNCHANGED <<upd, tree, text, pc, operations, error, applyVars>>

\* Lines 106-107, a payload row that does not.
AddBadLine ==
  /\ pc = "add" /\ ~AtEnd
  /\ ~StartsWith(Row, DIRECTIVE_PREFIX)
  /\ ~StartsWith(Row, <<"+">>)
  /\ Raise(PatchError("Added file lines must start with '+'", None))
  /\ UNCHANGED <<upd, tree, text, parser, operations, applyVars>>

\* Lines 104-105 and 110-113: the payload ends at a "*** " row or at the end
\* of the input, and the operation is appended.
AddFinish ==
  /\ pc = "add"
  /\ BodyEnds
  /\ IF parser.path = <<>>
     THEN Raise(PatchError("Missing path for add operation", None))
          /\ UNCHANGED operations
     ELSE /\ operations' =
               Append(operations, Operation("add", parser.path, None, parser.payload))
          /\ pc' = "top"
          /\ UNCHANGED error
  /\ UNCHANGED <<upd, tree, text, parser, applyVars>>

\* Mutant of TopDelete: the file is deleted as soon as the directive is read.
TopDeleteAtOnce ==
  /\ IsDirectiveLine
  /\ ~StartsWith(Row, ADD) /\ StartsWith(Row, DELETE)
  /\ LET path == Strip(Drop(Row, Len(DELETE)))
     IN IF path = <<>>
        THEN Raise(PatchError("Missing path for delete operation", None))
             /\ UNCHANGED <<parser, operations, fs>>
        ELSE /\ operations' = Append(operations, Operation("delete", path, None, <<>>))
             /\ parser' = [parser EXCEPT !.path = path, !.idx = @ + 1]
             /\ fs' = delete_file(fs, Path(path), path).fs
             /\ UNCHANGED <<pc, error>>
  /\ UNCHANGED <<upd, tree, text, opi, buffer, fs0, applied>>

\* Lines 114-120.
TopDelete ==
  /\ IsDirectiveLine
  /\ ~StartsWith(Row, ADD) /\ StartsWith(Row, DELETE)
  /\ LET path == Strip(Drop(Row, Len(DELETE)))
     IN IF path = <<>>
        THEN Raise(PatchError("Missing path for delete operation", None))
             /\ UNCHANGED <<parser, operations>>
        ELSE /\ operations' = Append(operations, Operation("delete", path, None, <<>>))
             /\ parser' = [parser EXCEPT !.path = path, !.idx = @ + 1]
             /\ UNCHANGED <<pc, error>>
  /\ UNCHANGED <<upd, tree, text, applyVars>>

\* Lines 121-133: an Update File directive, the Move to line that may follow
\* it, and the locals of the body loop.
TopUpdate ==
  /\ IsDirectiveLine
  /\ ~StartsWith(Row, ADD) /\ ~StartsWith(Row, DELETE) /\ StartsWith(Row, UPDATE)
  /\ LET path == Strip(Drop(Row, Len(UPDATE)))
         idx == parser.idx + 1
         moved == idx < Len(parser.lines) /\ StartsWith(parser.lines[idx + 1], MOVE)
     IN IF path = <<>>
        THEN Raise(PatchError("Missing path for update operation", None))
             /\ UNCHANGED parser
        ELSE /\ parser' =
                  [parser EXCEPT
                     !.path = path,
                     !.new_path = IF moved
                                  THEN Strip(Drop(parser.lines[idx + 1], Len(MOVE)))
                                  ELSE None,
                     !.idx = IF moved THEN idx + 1 ELSE idx,
                     !.hunks = <<>>, !.current_header = None,
                     !.current_lines = <<>>, !.chunk_started = FALSE]
             /\ pc' = "update"
             /\ UNCHANGED error
  /\ UNCHANGED <<upd, tree, text, operations, applyVars>>

\* Lines 134-151, one row of the body that does not start with "*** ".
UpdateRow ==
  /\ pc = "update" /\ ~AtEnd
  /\ ~StartsWith(Row, DIRECTIVE_PREFIX)
  /\ parser' =
       IF Row = END_OF_FILE
       THEN [parser EXCEPT !.chunk_started = TRUE, !.idx = @ + 1]
       ELSE IF StartsWith(Row, AT_AT)
       THEN [parser EXCEPT
               !.chunk_started = TRUE,
               !.hunks = IF parser.current_header # None
                         THEN Append(@, Hunk(parser.current_header, parser.current_lines))
                         ELSE @,
               !.current_header = Row,
               !.current_lines = <<>>,
               !.idx = @ + 1]
       ELSE [parser EXCEPT
               !.chunk_started = TRUE,
               !.current_header = IF @ = None THEN AT_AT ELSE @,
               !.current_lines = Append(@, Row),
               !.idx = @ + 1]
  /\ UNCHANGED <<upd, tree, text, pc, operations, error, applyVars>>

\* Lines 136-137 and 152-160: the body ends at a "*** " row or at the end of
\* the input; the hunks are closed and the operation is appended.
UpdateFinish ==
  /\ pc = "update"
  /\ BodyEnds
  /\ LET closed == IF parser.current_header # None
                   THEN Append(parser.hunks,
                               Hunk(parser.current_header, parser.current_lines))
                   ELSE parser.hunks
         hunks == IF closed = <<>> /\ parser.chunk_started
                  THEN <<Hunk(AT_AT, <<>>)>> ELSE closed
     IN IF hunks = <<>>
        THEN Raise(PatchError("Update missing hunk data", parser.path))
             /\ UNCHANGED <<parser, operations>>
        ELSE /\ parser' = [parser EXCEPT !.hunks = hunks]
             /\ operations' =
                  Append(operations,
                         Operation("update", parser.path, parser.new_path, hunks))
             /\ pc' = "top"
             /\ UNCHANGED error
  /\ UNCHANGED <<upd, tree, text, applyVars>>

\* Mutant of TopUnsupported: the unknown line is skipped.
TopUnsupportedSkips ==
  /\ IsDirectiveLine
  /\ ~StartsWith(Row, ADD) /\ ~StartsWith(Row, DELETE) /\ ~StartsWith(Row, UPDATE)
  /\ parser' = [parser EXCEPT !.idx = @ + 1]
  /\ UNCHANGED <<upd, tree, text, pc, operations, error, applyVars>>

\* Line 161.
TopUnsupported ==
  /\ IsDirectiveLine
  /\ ~StartsWith(Row, ADD) /\ ~StartsWith(Row, DELETE) /\ ~StartsWith(Row, UPDATE)
  /\ Raise(PatchError("Unsupported patch directive", Row))
  /\ UNCHANGED <<upd, tree, text, parser, operations, applyVars>>

\* Line 162.
TopMissingEnd ==
  /\ pc = "top" /\ AtEnd
  /\ Raise(PatchError("Patch missing '*** End Patch'", None))
  /\ UNCHANGED <<upd, tree, text, parser, operations, applyVars>>

ParseNext ==
  \/ ParseBegin
  \/ TopBlank
  \/ TopEnd
  \/ TopAdd
  \/ AddPayloadLine
  \/ AddBadLine
  \/ AddFinish
  \/ TopDelete
  \/ TopUpdate
  \/ UpdateRow
  \/ UpdateFinish
  \/ TopUnsupported
  \/ TopMissingEnd

\* ------------------------------------------------------------------------
\* Lines of the documents the model feeds to main
\* ------------------------------------------------------------------------

\* '*** Add File: a'
LnAddA == <<"*", "*", "*", " ", "A", "d", "d", " ", "F", "i", "l", "e", ":", " ", "a">>

\* '*** Add File: d'
LnAddD == <<"*", "*", "*", " ", "A", "d", "d", " ", "F", "i", "l", "e", ":", " ", "d">>

\* '*** Add File: d/c'
LnAddDC == <<"*", "*", "*", " ", "A", "d", "d", " ", "F", "i", "l", "e", ":", " ", "d", "/", "c">>

\* '*** Add File:'
LnAddNoPath == <<"*", "*", "*", " ", "A", "d", "d", " ", "F", "i", "l", "e", ":">>

\* '*** Delete File: a'
LnDeleteA == <<"*", "*", "*", " ", "D", "e", "l", "e", "t", "e", " ", "F", "i", "l", "e", ":", " ", "a">>

\* '*** Delete File: b'
LnDeleteB == <<"*", "*", "*", " ", "D", "e", "l", "e", "t", "e", " ", "F", "i", "l", "e", ":", " ", "b">>

\* '*** Delete File: d'
LnDeleteD == <<"*", "*", "*", " ", "D", "e", "l", "e", "t", "e", " ", "F", "i", "l", "e", ":", " ", "d">>

\* '*** Update File: a'
LnUpdateA == <<"*", "*", "*", " ", "U", "p", "d", "a", "t", "e", " ", "F", "i", "l", "e", ":", " ", "a">>

\* '*** Update File: d'
LnUpdateD == <<"*", "*", "*", " ", "U", "p", "d", "a", "t", "e", " ", "F", "i", "l", "e", ":", " ", "d">>

\* '*** Move to: ./a'
LnMoveA == <<"*", "*", "*", " ", "M", "o", "v", "e", " ", "t", "o", ":", " ", ".", "/", "a">>

\* '*** Move to: b'
LnMoveB == <<"*", "*", "*", " ", "M", "o", "v", "e", " ", "t", "o", ":", " ", "b">>

\* '*** Move to: d'
LnMoveD == <<"*", "*", "*", " ", "M", "o", "v", "e", " ", "t", "o", ":", " ", "d">>

\* '*** Move to: d/c'
LnMoveDC == <<"*", "*", "*", " ", "M", "o", "v", "e", " ", "t", "o", ":", " ", "d", "/", "c">>

\* '*** Move to:'
LnMoveEmpty == <<"*", "*", "*", " ", "M", "o", "v", "e", " ", "t", "o", ":">>

\* '@@ -1,3 +1,3 @@'
LnHeader13 == <<"@", "@", " ", "-", "1", ",", "3", " ", "+", "1", ",", "3", " ", "@", "@">>

\* '@@ -2 +2 @@'
LnHeader2 == <<"@", "@", " ", "-", "2", " ", "+", "2", " ", "@", "@">>

\* ' x'
LnKeepX == <<" ", "x">>

\* ' y'
LnKeepY == <<" ", "y">>

\* ' z'
LnKeepZ == <<" ", "z">>

\* '-x'
LnDelX == <<"-", "x">>

\* '-y'
LnDelY == <<"-", "y">>

\* '-z'
LnDelZ == <<"-", "z">>

\* '-q'
LnDelQ == <<"-", "q">>

\* '+x'
LnInsX == <<"+", "x">>

\* '+y'
LnInsY == <<"+", "y">>

\* '+Y'
LnInsUpperY == <<"+", "Y">>

\* '\\ No newline at end of file'
LnNoNewline == <<"\\", " ", "N", "o", " ", "n", "e", "w", "l", "i", "n", "e", " ", "a", "t", " ", "e", "n", "d", " ", "o", "f", " ", "f", "i", "l", "e">>

\* 'oops'
LnOops == <<"o", "o", "p", "s">>

\* ''
LnBlank == <<>>

\* '  '
LnSpaces == <<" ", " ">>

LnBomBegin == <<"BOM">> \o BEGIN

\* ' *** End Patch '
LnPaddedEnd == <<" ", "*", "*", "*", " ", "E", "n", "d", " ", "P", "a", "t", "c", "h", " ">>

\* ' *** Begin Patch '
LnPaddedBegin == <<" ", "*", "*", "*", " ", "B", "e", "g", "i", "n", " ", "P", "a", "t", "c", "h", " ">>

\* ------------------------------------------------------------------------
\* apply_operations
\* ------------------------------------------------------------------------

\* op of the loop's current iteration.
Op == operations[opi]

InLoop == pc = "apply" /\ opi <= Len(operations)

\* Mutant of NextOperation: the loop steps over the operation that follows.
NextOperationSkipsOne ==
  /\ opi' = opi + 2
  /\ applied' = Append(applied, opi)
  /\ pc' = "apply"
  /\ UNCHANGED error

\* The loop goes on to the next operation.
NextOperation ==
  /\ opi' = opi + 1
  /\ applied' = Append(applied, opi)
  /\ pc' = "apply"
  /\ UNCHANGED error

\* Lines 260-261.
ApplyAdd ==
  /\ InLoop /\ Op.kind = "add"
  /\ LET r == write_file(fs, Path(Op.path), Op.payload)
     IN /\ fs' = r.fs
        /\ IF r.error # NoError
           THEN Raise(r.error) /\ UNCHANGED <<opi, applied>>
           ELSE NextOperation
  /\ UNCHANGED <<upd, tree, text, parseVars, buffer, fs0>>

\* Lines 262-263.
ApplyDelete ==
  /\ InLoop /\ Op.kind = "delete"
  /\ LET r == delete_file(fs, Path(Op.path), Op.path)
     IN /\ fs' = r.fs
        /\ IF r.error # NoError
           THEN Raise(r.error) /\ UNCHANGED <<opi, applied>>
           ELSE NextOperation
  /\ UNCHANGED <<upd, tree, text, parseVars, buffer, fs0>>

\* if op.new_path
Truthy(new_path) == new_path # None /\ new_path # <<>>

\* Lines 264-266: apply_update, then the rename when a target was given.
ApplyUpdate ==
  /\ InLoop /\ Op.kind = "update"
  /\ LET r == apply_update(fs, Path(Op.path), Op.path, Op.payload)
     IN /\ fs' = r.fs
        /\ buffer' = r.lines
        /\ IF r.error # NoError
           THEN Raise(r.error) /\ UNCHANGED <<opi, applied>>
           ELSE IF Truthy(Op.new_path)
           THEN pc' = "rename" /\ UNCHANGED <<opi, applied, error>>
           ELSE NextOperation
  /\ UNCHANGED <<upd, tree, text, parseVars, fs0>>

\* Lines 267-269.
ApplyRename ==
  /\ pc = "rename"
  /\ LET made == ensure_parent(fs, Path(Op.new_path))
         moved == Rename(made.fs, Path(Op.path), Path(Op.new_path))
     IN IF made.error # NoError
        THEN Raise(made.error) /\ fs' = made.fs /\ UNCHANGED <<opi, applied>>
        ELSE /\ fs' = moved.fs
             /\ IF moved.error # NoError
                THEN Raise(moved.error) /\ UNCHANGED <<opi, applied>>
                ELSE NextOperation
  /\ UNCHANGED <<upd, tree, text, parseVars, buffer, fs0>>

\* The loop is over: apply_operations and main return.
ApplyReturn ==
  /\ pc = "apply" /\ opi > Len(operations)
  /\ pc' = "done"
  /\ UNCHANGED <<upd, tree, text, parseVars, opi, fs, error, buffer, fs0, applied>>

ApplyNext ==
  \/ ApplyAdd
  \/ ApplyDelete
  \/ ApplyUpdate
  \/ ApplyRename
  \/ ApplyReturn

\* ------------------------------------------------------------------------
\* main on whole documents
\* ------------------------------------------------------------------------

\* All sequences over S of length at most n.
SeqsUpTo(S, n) == UNION {[1..k -> S] : k \in 0..n}

RECURSIVE Flatten(_)
Flatten(ss) == IF ss = <<>> THEN <<>> ELSE Head(ss) \o Flatten(Tail(ss))

\* The directives a document is made of, each with its body.
Fragments ==
  { <<LnAddA, LnInsX, LnInsY>>,
    <<LnAddDC, LnInsX>>,
    <<LnAddD>>,
    <<LnDeleteA>>,
    <<LnDeleteD>>,
    <<LnUpdateA, LnMoveEmpty, LnHeader13, LnKeepX, LnDelY, LnInsUpperY, LnKeepZ>>,
    <<LnUpdateA, LnMoveB, LnDelY, LnInsUpperY>>,
    <<LnUpdateA, LnMoveA, LnDelY, LnInsUpperY>>,
    <<LnUpdateA, LnMoveDC, LnDelY, LnInsUpperY>>,
    <<LnUpdateA, LnMoveD, LnDelY, LnInsUpperY>>,
    <<LnUpdateA, LnMoveB, AT_AT, LnDelX, LnInsY, AT_AT, LnDelQ>>,
    <<LnUpdateA, AT_AT, LnDelX, LnBlank>>,
    <<LnUpdateA, AT_AT, LnDelX, LnDelY, LnDelZ, AT_AT, LnKeepX>>,
    <<LnUpdateD, LnDelX>> }

\* A filesystem given by the entries that are not absent.
FsOf(a, b, d, dc) ==
  [loc \in Locs |-> IF loc = <<NameA>> THEN a
                    ELSE IF loc = <<NameB>> THEN b
                    ELSE IF loc = <<NameD>> THEN d
                    ELSE dc]

TextXYZ == <<"x", "\n", "y", "\n", "z", "\n">>

\* The trees main may find.
InitialFilesystems ==
  { FsOf(FileNode(TextXYZ), NoNode, FileNode(<<"x", "\n">>), NoNode),
    FsOf(FileNode(TextXYZ), FileNode(<<"q", "\n">>), DirNode, FileNode(<<"x">>)) }

\* Texts without a Begin marker, without an End marker, with stray lines or
\* with padded markers.
SpecialDocuments ==
  { <<>>,
    JoinLf(<<LnBlank, LnPaddedBegin, LnSpaces, LnDeleteA, LnPaddedEnd>>),
    JoinLf(<<LnBomBegin, LnDeleteA, END>>),
    JoinLf(<<LnDeleteA, END>>),
    JoinLf(<<BEGIN, LnDeleteA>>) \o <<"\r", "\n">>,
    JoinLf(<<BEGIN, LnDeleteA, LnOops, END>>),
    JoinLf(<<BEGIN, LnDeleteA, LnAddA, LnInsX, LnOops, END>>),
    JoinLf(<<BEGIN, LnDeleteA, LnAddNoPath, LnInsX, END>>),
    JoinLf(<<BEGIN, LnDeleteA, LnUpdateA, END>>),
    JoinLf(<<BEGIN, LnUpdateA, LnDelX, END_OF_FILE, LnInsX, END>>),
    JoinLf(<<BEGIN, LnAddA, LnInsX, LnDeleteB, LnDeleteA, END>>) }

\* The documents: Begin, at most MaxOps fragments, End; and the special ones.
Documents ==
  { JoinLf(<<BEGIN>> \o Flatten(fr) \o <<END>>) \o <<"\n">> :
      fr \in SeqsUpTo(Fragments, MaxOps) }
  \cup SpecialDocuments

InitWith(t, f) ==
  /\ text = t
  /\ pc = "start"
  /\ parser = InitParser
  /\ operations = <<>>
  /\ opi = 0
  /\ fs = f
  /\ error = NoError
  /\ buffer = <<>>
  /\ fs0 = f
  /\ applied = <<>>
  /\ tree = NoWalk
  /\ upd = NoUpdate

Init == \E t \in Documents, f \in InitialFilesystems : InitWith(t, f)

Next == ParseNext \/ ApplyNext

Spec == Init /\ [][Next]_vars

\* ------------------------------------------------------------------------
\* parse_patch on free-form texts
\* ------------------------------------------------------------------------

\* The lines a free-form text is made of.
FreeLines ==
  { BEGIN, END, LnBlank, LnAddA, LnDeleteA, LnUpdateA, LnInsX, LnOops, END_OF_FILE }

FreeDocuments ==
  { JoinLf(ls) : ls \in SeqsUpTo(FreeLines, MaxDocLines) } \cup SpecialDocuments

InitParse ==
  \E t \in FreeDocuments :
    InitWith(t, FsOf(FileNode(TextXYZ), NoNode, NoNode, NoNode))

SpecParse == InitParse /\ [][ParseNext]_vars

\* ------------------------------------------------------------------------
\* One Update of one file, over all small files and hunks
\* ------------------------------------------------------------------------

\* The characters of the target files.
FileChars == {"x", "y", "\n"}

\* The raw lines of the hunks.
HunkRows == {LnKeepX, LnDelX, LnInsX, LnKeepY, LnDelY, LnInsY}

\* The hunk of scenario C: x, y, z becomes x, Y, z.
ScenarioRows == <<LnKeepX, LnDelY, LnInsUpperY, LnKeepZ>>

\* A file with carriage returns.
TextCrLf == <<"x", "\r", "\n", "y", "\r">>

UpdateTexts == SeqsUpTo(FileChars, MaxTextLen) \cup {TextXYZ, TextCrLf}

UpdateHunks ==
  { Hunk(h, rows) : h \in {AT_AT, LnHeader2}, rows \in SeqsUpTo(HunkRows, MaxHunkRows) }
  \cup { Hunk(LnHeader13, ScenarioRows) }

\* The document that parses to one Update of a with the one hunk.
UpdateDocument(hunk) == JoinLf(<<BEGIN, LnUpdateA, hunk.header>> \o hunk.lines \o <<END>>)

\* main has parsed the document and reached apply_operations.
InitUpdate ==
  \E t \in UpdateTexts, hunk \in UpdateHunks :
    /\ text = UpdateDocument(hunk)
    /\ pc = "apply"
    /\ parser = [InitParser EXCEPT !.lines = normalize_lines(text),
                                   !.idx = Len(hunk.lines) + 3,
                                   !.path = NameA,
                                   !.hunks = <<hunk>>]
    /\ operations = <<Operation("update", NameA, None, <<hunk>>)>>
    /\ opi = 1
    /\ fs = FsOf(FileNode(t), NoNode, NoNode, NoNode)
    /\ error = NoError
    /\ buffer = <<>>
    /\ fs0 = fs
    /\ applied = <<>>
    /\ tree = NoWalk
    /\ upd = NoUpdate

NextUpdate == ApplyUpdate \/ ApplyReturn

SpecUpdate == InitUpdate /\ [][NextUpdate]_vars

\* ------------------------------------------------------------------------
\* apply_update and find_sequence, statement by statement
\* ------------------------------------------------------------------------

\* Largest number of lines of a target file.
MaxFileLines == 3

\* Largest number of lines of a block looked for.
MaxNeedle == 2

\* Largest line number in a hunk header.
MaxStart == 4

\* Largest number of hunks of an Update.
MaxHunks == 2

\* Largest number of times the Update is applied in a row.
MaxUpdates == 2

\* The locals of apply_update and find_sequence before the file is read.
UpdateCall(file, hunks) ==
  [pc |-> "begin", file |-> file, hunks |-> hunks,
   lines |-> <<>>, trailing_newline |-> FALSE, line_delta |-> 0, k |-> 1,
   original |-> <<>>, replacement |-> <<>>, start_hint |-> <<>>,
   positions |-> <<>>, pi |-> 1, idx |-> 0, error |-> NoError,
   examined |-> <<>>, before |-> <<>>, updates |-> 0, file0 |-> file,
   written |-> <<>>]

\* hunks[k], the hunk of this turn of the loop
HunkAtHand == upd.hunks[upd.k]

\* raise exc out of apply_update
UpdRaise(exc) == [upd EXCEPT !.pc = "failed", !.error = exc]

\* Lines 210-214: the file is read and split; line_delta starts at 0.
UpdBegin ==
  /\ upd.pc = "begin"
  /\ upd' = IF upd.file = <<>>
            THEN UpdRaise(PatchError("Cannot update missing file", NameA))
            ELSE LET text_read == ReadText(upd.file[1])
                 IN [upd EXCEPT !.pc = "loop",
                                !.lines = SplitLines(text_read),
                                !.trailing_newline = EndsWithLf(text_read),
                                !.line_delta = 0,
                                !.k = 1]
  /\ UNCHANGED <<patchVars, tree>>

\* Lines 216-222: the hunk is decoded, the hint computed and find_sequence
\* called.
UpdDecode ==
  /\ upd.pc = "loop"
  /\ upd.k <= Len(upd.hunks)
  /\ LET dec == decode_hunk_lines(HunkAtHand.lines)
     IN upd' = IF dec.error # NoError THEN UpdRaise(dec.error)
               ELSE [upd EXCEPT !.pc = "find",
                                !.original = dec.original,
                                !.replacement = dec.replacement,
                                !.start_hint = HintOf(HunkAtHand, upd.line_delta),
                                !.examined = <<>>,
                                !.before = upd.lines]
  /\ UNCHANGED <<patchVars, tree>>

\* Mutant of FindEmpty: without a hint an empty seq is found at the start.
FindEmptyAtStart ==
  /\ upd.pc = "find"
  /\ upd.original = <<>>
  /\ upd' = [upd EXCEPT !.pc = "splice",
                        !.idx = IF upd.start_hint # <<>>
                                THEN Max(0, Min(upd.start_hint[1], Len(upd.lines)))
                                ELSE 0]
  /\ UNCHANGED <<patchVars, tree>>

\* Lines 234-237: an empty seq is found at the clamped hint, or at the end.
FindEmpty ==
  /\ upd.pc = "find"
  /\ upd.original = <<>>
  /\ upd' = [upd EXCEPT !.pc = "splice",
                        !.idx = IF upd.start_hint # <<>>
                                THEN Max(0, Min(upd.start_hint[1], Len(upd.lines)))
                                ELSE Len(upd.lines)]
  /\ UNCHANGED <<patchVars, tree>>

\* Lines 238-240.
FindTooLong ==
  /\ upd.pc = "find"
  /\ upd.original # <<>>
  /\ Len(upd.lines) - Len(upd.original) < 0
  /\ upd' = UpdRaise(PatchError("Patch hunk longer than target file", None))
  /\ UNCHANGED <<patchVars, tree>>

\* Lines 242-249: the candidate positions are listed.
FindPositions ==
  /\ upd.pc = "find"
  /\ upd.original # <<>>
  /\ Len(upd.lines) - Len(upd.original) >= 0
  /\ upd' = [upd EXCEPT !.pc = "scan",
                        !.positions = Positions(Len(upd.lines) - Len(upd.original),
                                                upd.start_hint),
                        !.pi = 1]
  /\ UNCHANGED <<patchVars, tree>>

\* Lines 251-253: one turn of the loop over positions.
FindTry ==
  /\ upd.pc = "scan"
  /\ upd.pi <= Len(upd.positions)
  /\ LET pos == upd.positions[upd.pi]
     IN upd' = IF Slice(upd.lines, pos, Len(upd.original)) = upd.original
               THEN [upd EXCEPT !.pc = "splice", !.idx = pos,
                                !.examined = Append(@, pos)]
               ELSE [upd EXCEPT !.pi = @ + 1, !.examined = Append(@, pos)]
  /\ UNCHANGED <<patchVars, tree>>

\* Mutant of FindFail: when no position matched the end of the lines is
\* returned.
FindFailReturnsEnd ==
  /\ upd.pc = "scan"
  /\ upd.pi > Len(upd.positions)
  /\ upd' = [upd EXCEPT !.pc = "splice", !.idx = Len(upd.lines)]
  /\ UNCHANGED <<patchVars, tree>>

\* Line 254: no position matched.
FindFail ==
  /\ upd.pc = "scan"
  /\ upd.pi > Len(upd.positions)
  /\ upd' = UpdRaise(PatchError("Failed to match patch hunk context", None))
  /\ UNCHANGED <<patchVars, tree>>

\* Mutant of UpdSplice: line_delta moves on for a hunk without a line number
\* too.
UpdSpliceAlwaysShifts ==
  /\ upd.pc = "splice"
  /\ upd' = [upd EXCEPT
               !.pc = "loop",
               !.lines = Splice(upd.lines, upd.idx, Len(upd.original), upd.replacement),
               !.line_delta = @ + Len(upd.replacement) - Len(upd.original),
               !.k = @ + 1]
  /\ UNCHANGED <<patchVars, tree>>

\* Lines 223-225: the block found is replaced and line_delta moved on.
UpdSplice ==
  /\ upd.pc = "splice"
  /\ upd' = [upd EXCEPT
               !.pc = "loop",
               !.lines = Splice(upd.lines, upd.idx, Len(upd.original), upd.replacement),
               !.line_delta = IF HunkAtHand.original_start # <<>>
                              THEN @ + Len(upd.replacement) - Len(upd.original)
                              ELSE @,
               !.k = @ + 1]
  /\ UNCHANGED <<patchVars, tree>>

\* Lines 227-230: after the last hunk the file is written.
UpdWrite ==
  /\ upd.pc = "loop"
  /\ upd.k > Len(upd.hunks)
  /\ upd' = [upd EXCEPT !.pc = "done",
                        !.file = <<NewText(upd.lines, upd.trailing_newline)>>,
                        !.updates = @ + 1,
                        !.written = Append(@, NewText(upd.lines, upd.trailing_newline))]
  /\ UNCHANGED <<patchVars, tree>>

\* apply_operations, lines 258 and 265: the next operation of the document
\* is the same Update of the same file.
UpdAgain ==
  /\ upd.pc = "done"
  /\ upd.updates < MaxUpdates
  /\ upd' = [upd EXCEPT !.pc = "begin"]
  /\ UNCHANGED <<patchVars, tree>>

\* The lines of the target files.
FileLineValues == {<<"x">>, <<"y">>}

\* The target files: some lines, each ended by a line feed; a file whose
\* last line has none; no file.
HunkFiles ==
  { <<Flatten([i \in 1..Len(ls) |-> ls[i] \o <<"\n">>])>> :
      ls \in SeqsUpTo(FileLineValues, MaxFileLines) }
  \cup { <<<<"x", "\n", "y">>>>, <<>> }

DigitChar(n) == CHOOSE c \in Digits : DigitVal(c) = n

\* '@@ -n +n @@'
HeaderAt(n) ==
  <<"@", "@", " ", "-", DigitChar(n), " ", "+", DigitChar(n), " ", "@", "@">>

HunkHeaders == {AT_AT} \cup { HeaderAt(n) : n \in 0..MaxStart }

\* The raw lines that take the block away: each of its lines tagged "-".
Deleting(block) == [i \in 1..Len(block) |-> <<"-">> \o block[i]]

\* The raw lines of any kind, well-formed or not.
DecodeRows == {LnKeepX, LnDelY, LnInsX, LnNoNewline, LnBlank, LnOops}

\* ' x', ' y', '+y', '+y', '+y': three lines go in after x, y.
RowsInsertThree == <<LnKeepX, LnKeepY, LnInsY, LnInsY, LnInsY>>

\* Hunks with a header that has no line number
HunksWithoutStart ==
  { Hunk(AT_AT, rows) : rows \in {<<LnInsX>>, <<LnDelY>>, <<LnKeepX, LnInsY>>} }

\* Hunks with a line number in the header
HunksWithStart ==
  { Hunk(HeaderAt(1), rows) : rows \in {RowsInsertThree, <<LnDelX>>} }
  \cup { Hunk(HeaderAt(3), <<LnKeepX, LnInsX>>) }

\* The hunk lists of an Update: one hunk that takes a block away, under every
\* header; one hunk of any raw lines; several hunks with and without line
\* numbers.
HunkLists ==
  { <<Hunk(h, Deleting(block))>> :
      h \in HunkHeaders, block \in SeqsUpTo(FileLineValues, MaxNeedle) }
  \cup { <<Hunk(h, rows)>> :
           h \in {AT_AT, HeaderAt(2)}, rows \in SeqsUpTo(DecodeRows, MaxHunkRows) }
  \cup { hs \in SeqsUpTo(HunksWithoutStart \cup HunksWithStart, MaxHunks) : Len(hs) >= 2 }

InitHunks ==
  /\ text = <<>>
  /\ pc = "idle"
  /\ parser = InitParser
  /\ operations = <<>>
  /\ opi = 0
  /\ fs = FsOf(NoNode, NoNode, NoNode, NoNode)
  /\ error = NoError
  /\ buffer = <<>>
  /\ fs0 = fs
  /\ applied = <<>>
  /\ tree = NoWalk
  /\ \E file \in HunkFiles, hunks \in HunkLists : upd = UpdateCall(file, hunks)

NextHunks ==
  \/ UpdBegin
  \/ UpdDecode
  \/ FindEmpty
  \/ FindTooLong
  \/ FindPositions
  \/ FindTry
  \/ FindFail
  \/ UpdSplice
  \/ UpdWrite
  \/ UpdAgain

SpecHunks == InitHunks /\ [][NextHunks]_vars

\* The statements agree with apply_update taken as a whole: when the run ends
\* the file is what apply_update leaves of the file before this application.
StepsAgreeWithApplyUpdate ==
  upd.pc \in {"done", "failed"} /\ upd.updates <= 1 =>
    LET f == FsOf(IF upd.file0 = <<>> THEN NoNode ELSE FileNode(upd.file0[1]),
                  NoNode, NoNode, NoNode)
        r == apply_update(f, <<NameA>>, NameA, upd.hunks)
    IN IF upd.updates = 0
       THEN upd.pc = "failed" /\ r.error = upd.error /\ upd.file = upd.file0
       ELSE upd.pc = "done" => r.error = NoError /\ r.fs[<<NameA>>] = FileNode(upd.file[1])

\* ------------------------------------------------------------------------
\* loctree.py: names, sorting keys and suffixes
\* ------------------------------------------------------------------------

LARGE_FILE_THRESHOLD == 1000

\* The name collect_lines compares every entry with.
DS_STORE == <<".", "D", "S", "_", "S", "t", "o", "r", "e">>

UpperCase ==
  <<"A", "B", "C", "D", "E", "F", "G", "H", "I", "J", "K", "L", "M",
    "N", "O", "P", "Q", "R", "S", "T", "U", "V", "W", "X", "Y", "Z">>

LowerCase ==
  <<"a", "b", "c", "d", "e", "f", "g", "h", "i", "j", "k", "l", "m",
    "n", "o", "p", "q", "r", "s", "t", "u", "v", "w", "x", "y", "z">>

\* The characters of names in the order of their code points.
CodePoints == <<".", "/">> \o UpperCase \o <<"_">> \o LowerCase

Ord(c) == CHOOSE i \in 1..Len(CodePoints) : CodePoints[i] = c

LowerChar(c) ==
  IF \E i \in 1..Len(UpperCase) : UpperCase[i] = c
  THEN LowerCase[CHOOSE i \in 1..Len(UpperCase) : UpperCase[i] = c]
  ELSE c

\* str.lower()
lower(s) == [i \in 1..Len(s) |-> LowerChar(s[i])]

\* a < b for two strings: at the first place they differ a has the smaller
\* character, or a ends there and b goes on.
StrLess(a, b) ==
  \E i \in 1..(Min(Len(a), Len(b)) + 1) :
    /\ \A j \in 1..(i - 1) : a[j] = b[j]
    /\ IF i > Len(a) THEN i <= Len(b)
       ELSE IF i > Len(b) THEN FALSE
       ELSE Ord(a[i]) < Ord(b[i])

\* str.lstrip(".")
RECURSIVE LStripDot(_)
LStripDot(s) == IF s # <<>> /\ Head(s) = "." THEN LStripDot(Tail(s)) ELSE s

\* Path.suffix: the name from its last dot on, when that dot is neither the
\* first nor the last character of the name; otherwise "".
Suffix(name) ==
  LET dots == {i \in 1..Len(name) : name[i] = "."}
  IN IF dots = {} THEN <<>>
     ELSE LET i == CHOOSE d \in dots : \A e \in dots : e <= d
          IN IF i = 1 \/ i = Len(name) THEN <<>> ELSE Drop(name, i - 1)

\* entry.suffix.lstrip(".").lower()
ExtOf(name) == lower(LStripDot(Suffix(name)))

\* str(relative): the components joined by "/".
RECURSIVE JoinSlash(_)
JoinSlash(path) ==
  IF path = <<>> THEN <<".">>
  ELSE IF Len(path) = 1 THEN path[1]
       ELSE path[1] \o <<"/">> \o JoinSlash(Tail(path))

\* "│   " for a level that has further entries, "    " for one that has
\* not, then "└── " for the last entry and "├── " otherwise, then the name.
format_label(prefix_flags, name, is_last) ==
  [prefix |-> [i \in 1..Len(prefix_flags) |->
                 IF prefix_flags[i] THEN "pipe" ELSE "gap"],
   branch |-> IF is_last THEN "corner" ELSE "tee",
   name |-> name]

\* ------------------------------------------------------------------------
\* loctree.py: the directory under root
\* ------------------------------------------------------------------------

NameVisible == <<"v", "i", "s", "i", "b", "l", "e", ".", "t", "x", "t">>

NameHidden == <<".", "h", "i", "d", "d", "e", "n", ".", "t", "x", "t">>

NameBig == <<"B", ".", "p", "y">>

NameSub == <<"s", "u", "b">>

NameLocked == <<"l", "o", "c", "k", "e", "d">>

ExtPy == <<"p", "y">>

\* A path is the sequence of names from root; <<>> is root itself.
RootFiles == {<<NameVisible>>, <<NameHidden>>, <<DS_STORE>>, <<NameBig>>}

SubFiles == {<<NameSub, DS_STORE>>, <<NameSub, NameLocked>>, <<NameSub, NameHidden>>}

\* entry.is_dir()
IsDir(path) == path = <<>> \/ path = <<NameSub>>

\* The number of lines of each file; None for a file that cannot be opened.
LinesIn(path) ==
  LET name == path[Len(path)]
  IN CASE name = NameVisible -> <<2>>
       [] name = NameHidden -> <<1>>
       [] name = DS_STORE -> <<1>>
       [] name = NameBig -> <<LARGE_FILE_THRESHOLD>>
       [] name = NameLocked -> <<>>

\* sum(1 for _ in handle), None on OSError
count_file_lines(path) == LinesIn(path)

\* current.iterdir() as a set
IterDir(present, current) ==
  {p \in present : Len(p) = Len(current) + 1 /\ SubSeq(p, 1, Len(current)) = current}

\* The key (0 if p.is_dir() else 1, p.name.lower()) of a is below that of b.
KeyLess(a, b) ==
  LET ka == IF IsDir(a) THEN 0 ELSE 1
      kb == IF IsDir(b) THEN 0 ELSE 1
  IN ka < kb \/ (ka = kb /\ StrLess(lower(a[Len(a)]), lower(b[Len(b)])))

\* The lists sorted(entries, key) can return: the names in an order in which
\* no key is below an earlier one (several when keys are equal).
SortedEntries(S) ==
  LET n == Cardinality(S)
  IN { [i \in 1..n |-> s[i][Len(s[i])]] :
         s \in { t \in [1..n -> S] :
                   /\ \A i, j \in 1..n : i # j => t[i] # t[j]
                   /\ \A i, j \in 1..n : i < j => ~KeyLess(t[j], t[i]) } }

\* full_path.relative_to(ignored) succeeds for one of ignore_paths, or git
\* says the path is ignored.
should_ignore(full_path, options, git_checker, git_ignored) ==
  \/ \E ignored \in options.ignore_paths :
       Len(ignored) <= Len(full_path) /\ SubSeq(full_path, 1, Len(ignored)) = ignored
  \/ options.use_gitignore /\ git_checker /\ full_path # <<>> /\ full_path \in git_ignored

NewStats == [directories |-> 0, files |-> 0, filesWithLoc |-> 0, totalLoc |-> 0]

\* The locals of one call of walk.
Frame(current, entries, prefix_flags, depth) ==
  [current |-> current, entries |-> entries, index |-> 0,
   prefix_flags |-> prefix_flags, depth |-> depth, any_included |-> FALSE]

\* ------------------------------------------------------------------------
\* loctree.py: collect_lines
\* ------------------------------------------------------------------------

Top == tree.stack[Len(tree.stack)]

Walking == tree.pc = "walk" /\ tree.stack # <<>>

InFor == Walking /\ Top.index < Len(Top.entries)

Entry == Top.entries[Top.index + 1]

EntryPath == Top.current \o <<Entry>>

EntryIsLast == Top.index = Len(Top.entries) - 1

EntryLabel == format_label(Top.prefix_flags, Entry, EntryIsLast)

EntryIgnored ==
  should_ignore(EntryPath, tree.options, tree.git_checker, tree.git_ignored)

\* The stack after this iteration of the for loop.
Advanced(stack, include_current) ==
  [stack EXCEPT ![Len(stack)] =
     [@ EXCEPT !.index = @ + 1, !.any_included = @ \/ include_current]]

\* Lines 114 and 179: the checker is built, walk(root, [], 0) is called and
\* lists root.
WalkBegin ==
  /\ tree.pc = "start"
  /\ IF <<>> \in tree.unreadable
     THEN tree' = [tree EXCEPT !.pc = "returned",
                               !.git_checker = tree.options.use_gitignore /\ tree.inside_work_tree]
     ELSE \E entries \in SortedEntries(IterDir(tree.present, <<>>)) :
            tree' = [tree EXCEPT !.pc = "walk",
                                 !.git_checker = tree.options.use_gitignore /\ tree.inside_work_tree,
                                 !.stack = <<Frame(<<>>, entries, <<>>, 0)>>]
  /\ UNCHANGED <<patchVars, upd>>

\* Lines 127-128.
WalkDsStore ==
  /\ InFor
  /\ Entry = DS_STORE
  /\ tree' = [tree EXCEPT !.stack = [@ EXCEPT ![Len(@)].index = @ + 1]]
  /\ UNCHANGED <<patchVars, upd>>

\* Lines 137-138.
WalkIgnored ==
  /\ InFor
  /\ Entry # DS_STORE
  /\ EntryIgnored
  /\ tree' = [tree EXCEPT !.stack = [@ EXCEPT ![Len(@)].index = @ + 1]]
  /\ UNCHANGED <<patchVars, upd>>

\* Lines 144-146 and 117-123: a directory within max_depth is walked, unless
\* it cannot be listed; any other directory is left out.
WalkDir ==
  /\ InFor
  /\ Entry # DS_STORE
  /\ ~EntryIgnored
  /\ IsDir(EntryPath)
  /\ IF tree.options.max_depth = <<>> \/ Top.depth < tree.options.max_depth[1]
     THEN IF EntryPath \in tree.unreadable
          THEN tree' = [tree EXCEPT !.stack = Advanced(@, FALSE)]
          ELSE \E entries \in SortedEntries(IterDir(tree.present, EntryPath)) :
                 tree' = [tree EXCEPT !.stack =
                            Append(@, Frame(EntryPath, entries,
                                            Append(Top.prefix_flags, ~EntryIsLast),
                                            Top.depth + 1))]
     ELSE tree' = [tree EXCEPT !.stack = Advanced(@, FALSE)]
  /\ UNCHANGED <<patchVars, upd>>

\* Lines 177, 146-149 and 172-175: the inner walk returns any_included; a
\* directory that has something is counted and listed after its entries.
WalkDirDone ==
  /\ Walking
  /\ Len(tree.stack) > 1
  /\ Top.index >= Len(Top.entries)
  /\ LET child_has == Top.any_included
         outer == SubSeq(tree.stack, 1, Len(tree.stack) - 1)
         up == outer[Len(outer)]
         name == up.entries[up.index + 1]
         is_last == up.index = Len(up.entries) - 1
         label == format_label(up.prefix_flags, name, is_last)
     IN tree' = [tree EXCEPT
          !.stack = Advanced(outer, child_has),
          !.stats = IF child_has THEN [@ EXCEPT !.directories = @ + 1] ELSE @,
          !.lines = IF child_has
                    THEN Append(@, [label |-> label, loc |-> <<>>,
                                    path |-> JoinSlash(Top.current),
                                    is_dir |-> TRUE, is_large |-> FALSE])
                    ELSE @]
  /\ UNCHANGED <<patchVars, upd>>

\* Lines 150-170: a file whose extension passes and whose lines can be
\* counted is counted and listed.
WalkFile ==
  /\ InFor
  /\ Entry # DS_STORE
  /\ ~EntryIgnored
  /\ ~IsDir(EntryPath)
  /\ LET ext == ExtOf(Entry)
         passes == tree.options.extensions = <<>> \/ ext \in tree.options.extensions[1]
         loc == count_file_lines(EntryPath)
     IN IF passes /\ loc # <<>>
        THEN LET is_large == loc[1] >= LARGE_FILE_THRESHOLD
             IN tree' = [tree EXCEPT
                  !.stack = Advanced(@, TRUE),
                  !.stats = [@ EXCEPT !.files = @ + 1, !.filesWithLoc = @ + 1,
                                      !.totalLoc = @ + loc[1]],
                  !.large_entries = IF is_large
                                    THEN Append(@, <<JoinSlash(EntryPath), loc[1]>>)
                                    ELSE @,
                  !.lines = Append(@, [label |-> EntryLabel, loc |-> loc,
                                       path |-> JoinSlash(EntryPath),
                                       is_dir |-> FALSE, is_large |-> is_large])]
        ELSE tree' = [tree EXCEPT !.stack = Advanced(@, FALSE)]
  /\ UNCHANGED <<patchVars, upd>>

\* Lines 177 and 179-180: the outermost walk ends and collect_lines returns
\* lines, large_entries and stats.
WalkReturn ==
  /\ Walking
  /\ Len(tree.stack) = 1
  /\ Top.index >= Len(Top.entries)
  /\ tree' = [tree EXCEPT !.pc = "returned", !.stack = <<>>]
  /\ UNCHANGED <<patchVars, upd>>

\* The directories collect_lines is run on: any of the files of root, and
\* possibly the directory sub with any of its files.
Trees ==
  { r \cup s : r \in SUBSET RootFiles,
               s \in {{}} \cup { {<<NameSub>>} \cup t : t \in SUBSET SubFiles } }

\* The fields of Options that collect_lines reads.
OptionsPool ==
  [extensions : {<<>>, <<{ExtPy}>>},
   ignore_paths : {{}, {<<NameSub>>}},
   use_gitignore : BOOLEAN,
   max_depth : {<<>>, <<0>>}]

InitTree ==
  /\ text = <<>>
  /\ pc = "idle"
  /\ parser = InitParser
  /\ operations = <<>>
  /\ opi = 0
  /\ fs = FsOf(NoNode, NoNode, NoNode, NoNode)
  /\ error = NoError
  /\ buffer = <<>>
  /\ fs0 = fs
  /\ applied = <<>>
  /\ upd = NoUpdate
  /\ \E present \in Trees, options \in OptionsPool, hidden \in BOOLEAN,
        inside \in BOOLEAN, locked \in {{}, {<<NameSub>>}} :
       /\ inside => options.use_gitignore
       /\ locked \subseteq present
       /\ tree = [pc |-> "start",
                  present |-> present,
                  unreadable |-> locked,
                  options |-> options,
                  show_hidden |-> hidden,
                  inside_work_tree |-> inside,
                  git_ignored |-> IF inside THEN {<<NameVisible>>} ELSE {},
                  git_checker |-> FALSE,
                  stack |-> <<>>,
                  lines |-> <<>>,
                  large_entries |-> <<>>,
                  stats |-> NewStats]

NextTree ==
  \/ WalkBegin
  \/ WalkDsStore
  \/ WalkIgnored
  \/ WalkDir
  \/ WalkDirDone
  \/ WalkFile
  \/ WalkReturn

SpecTree == InitTree /\ [][NextTree]_vars

\* ------------------------------------------------------------------------
\* Reference: what a list of operations does to a filesystem
\* ------------------------------------------------------------------------

\* What one operation, run to its end, does to the filesystem f.
OperationEffect(f, op) ==
  IF op.kind = "add" THEN write_file(f, Path(op.path), op.payload)
  ELSE IF op.kind = "delete" THEN delete_file(f, Path(op.path), op.path)
  ELSE LET u == apply_update(f, Path(op.path), op.path, op.payload)
           made == ensure_parent(u.fs, Path(op.new_path))
       IN IF u.error # NoError \/ ~Truthy(op.new_path)
          THEN [error |-> u.error, fs |-> u.fs]
          ELSE IF made.error # NoError THEN made
          ELSE Rename(made.fs, Path(op.path), Path(op.new_path))

RECURSIVE Replay(_, _, _)
\* The filesystem after the first n operations of ops, each run to its end
\* on what the ones before it left.
Replay(f, ops, n) ==
  IF n = 0 THEN f ELSE OperationEffect(Replay(f, ops, n - 1), ops[n]).fs

RECURSIVE AllSucceed(_, _, _)
\* Every one of the first n operations succeeds in that replay.
AllSucceed(f, ops, n) ==
  n = 0 \/ ( /\ AllSucceed(f, ops, n - 1)
             /\ OperationEffect(Replay(f, ops, n - 1), ops[n]).error = NoError )

\* The filesystem the operation at hand started on.
Before == Replay(fs0, operations, opi - 1)

\* main is inside apply_operations, or failed in it.
Applying == opi >= 1

\* The errors decode_hunk_lines and find_sequence raise.
HunkFailures ==
  { "Malformed hunk line", "Unsupported hunk prefix",
    "Patch hunk longer than target file", "Failed to match patch hunk context" }

\* ------------------------------------------------------------------------
\* Claims
\* ------------------------------------------------------------------------

\* C1: apply_operations performs the operations in document order and stops
\* at the first failing one.  Whenever main is in apply_operations, the
\* operations carried out are exactly 1..opi-1, in order, and the filesystem
\* is what they leave, one after the other, on the initial filesystem.  When
\* operation k = opi fails, the run has ended in failure with that
\* operation's error, the effects of 1..k-1 are all there (nothing is rolled
\* back), and nothing else was done: the filesystem is the one operation k
\* started on, or that one with the Update's rewritten target when the
\* rename after a written Update is what failed.
C1_InOrderStopAtFirstFailure ==
  Applying =>
    /\ applied = Range(1, opi)
    /\ AllSucceed(fs0, operations, opi - 1)
    /\ pc \in {"apply", "done"} => fs = Before
    /\ pc = "done" => opi = Len(operations) + 1
    /\ pc = "failed" =>
         /\ opi <= Len(operations)
         /\ error # NoError
         /\ error = OperationEffect(Before, Op).error
         /\ \/ fs = Before
            \/ /\ Op.kind = "update"
               /\ fs = apply_update(Before, Path(Op.path), Op.path, Op.payload).fs

\* Witness of C1: of three operations the first took effect, the second
\* failed and the third, which would delete the file the first wrote, was
\* never performed.
C1_Witness ==
  /\ pc = "failed" /\ opi = 2 /\ Len(operations) = 3
  /\ applied = <<1>>
  /\ fs # fs0
  /\ operations[3].kind = "delete"
  /\ fs[Path(operations[3].path)] = FileNode(<<"x", "\n">>)

\* C2: an Update writes its target only after every hunk was decoded and
\* matched.  When a hunk of the Update fails (malformed line, unsupported
\* prefix, hunk longer than the file, no matching position), the whole
\* filesystem is what it was when the Update started: the target keeps its
\* content and no rename took place.
C2_FailedHunkLeavesFileUntouched ==
  ( /\ pc = "failed" /\ Applying
    /\ Op.kind = "update"
    /\ error.msg \in HunkFailures )
  => fs = Before

\* Witness of C2: the second hunk of an Update with a Move-to target failed
\* after the first one had changed the buffer.
C2_Witness ==
  /\ pc = "failed" /\ Applying
  /\ Op.kind = "update" /\ Truthy(Op.new_path)
  /\ error.msg = "Failed to match patch hunk context"
  /\ buffer # SplitLines(ReadText(Before[Path(Op.path)].text))
  /\ fs = fs0

\* The one hunk of the Update at hand, decoded.
TheHunk == operations[1].payload[1]

Decoded == decode_hunk_lines(TheHunk.lines)

\* The lines of the target file when the Update started.
LinesBefore == SplitLines(ReadText(fs0[<<NameA>>].text))

\* C3: an Update whose single hunk decodes to an original block equal to its
\* replacement block leaves the target file byte-identical, whatever the
\* file (an empty one included) and the hunk (one with both blocks empty
\* included).
C3_IdentityHunkKeepsBytes ==
  ( /\ pc = "done"
    /\ Len(operations) = 1 /\ operations[1].kind = "update"
    /\ Len(operations[1].payload) = 1
    /\ Decoded.error = NoError
    /\ Decoded.original = Decoded.replacement )
  => fs[Path(operations[1].path)].text = fs0[Path(operations[1].path)].text

\* C4: one hunk that matches at index i replaces exactly the lines
\* i .. i+len(original)-1 of the buffer by the replacement block.  After a
\* successful single-hunk Update, with i the position find_sequence returns:
\* the original block stood at i, the lines before i are kept, the
\* replacement follows them, the lines from i+len(original) on are kept after
\* it, and the length changed by len(replacement) - len(original).
C4_HunkReplacesExactlyTheMatch ==
  ( /\ pc = "done"
    /\ Len(operations) = 1 /\ operations[1].kind = "update"
    /\ Len(operations[1].payload) = 1 )
  =>
    LET old == LinesBefore
        orig == Decoded.original
        repl == Decoded.replacement
        i == find_sequence(old, orig, HintOf(TheHunk, 0)).idx
    IN /\ i + Len(orig) <= Len(old)
       /\ \A j \in 1..Len(orig) : old[i + j] = orig[j]
       /\ Len(buffer) = Len(old) + Len(repl) - Len(orig)
       /\ \A j \in 1..i : buffer[j] = old[j]
       /\ \A j \in 1..Len(repl) : buffer[i + j] = repl[j]
       /\ \A j \in (i + Len(orig) + 1)..Len(old) :
            buffer[j + Len(repl) - Len(orig)] = old[j]

\* Witness of C4: scenario C, the file x, y, z and the hunk " x", "-y", "+Y",
\* " z" under the header "@@ -1,3 +1,3 @@".
C4_Witness ==
  /\ pc = "done"
  /\ fs0[<<NameA>>].text = TextXYZ
  /\ TheHunk = Hunk(LnHeader13, ScenarioRows)
  /\ buffer = << <<"x">>, <<"Y">>, <<"z">> >>
  /\ fs[<<NameA>>].text = <<"x", "\n", "Y", "\n", "z", "\n">>

\* The operation that has just been carried out, the filesystem it started
\* on and the node apply_update left at its path.
Last == operations[opi - 1]

BeforeLast == Replay(fs0, operations, opi - 2)

JustCompletedUpdate == pc = "apply" /\ opi >= 2 /\ Last.kind = "update"

Edited == apply_update(BeforeLast, Path(Last.path), Last.path, Last.payload).fs[Path(Last.path)]

\* C5 as claimed: after a successful Update that carries a Move-to target,
\* the edited content is at the new path and no file exists at the original
\* path, for every choice of original path and Move-to target.
C5_MovedForEveryTarget ==
  (JustCompletedUpdate /\ Last.new_path # None)
  => /\ Path(Last.new_path) \in Locs
     /\ fs[Path(Last.new_path)] = Edited
     /\ ~Exists(fs, Path(Last.path))

\* C5 as amended: after a successful Update whose Move-to target is not empty
\* and names another location than the original path, the edited content is
\* at the new path and nothing exists at the original path.  With a target
\* that names the original path itself the file stays there with the edited
\* content, and with an empty target no rename is made.  The rename comes
\* after the rewrite: while it is pending, the filesystem is exactly what
\* apply_update left, the edited content at the original path.
C5_MovedToAnotherLocation ==
  /\ (JustCompletedUpdate /\ Truthy(Last.new_path) /\ Path(Last.new_path) # Path(Last.path))
     => /\ fs[Path(Last.new_path)] = Edited
        /\ ~Exists(fs, Path(Last.path))
  /\ (JustCompletedUpdate /\ Truthy(Last.new_path) /\ Path(Last.new_path) = Path(Last.path))
     => fs[Path(Last.path)] = Edited
  /\ (JustCompletedUpdate /\ Last.new_path = <<>>)
     => fs = apply_update(BeforeLast, Path(Last.path), Last.path, Last.payload).fs
  /\ pc = "rename"
     => /\ Op.kind = "update" /\ Truthy(Op.new_path)
        /\ apply_update(Before, Path(Op.path), Op.path, Op.payload).error = NoError
        /\ fs = apply_update(Before, Path(Op.path), Op.path, Op.payload).fs

\* Witness of C5: the Update of a with "Move to: b" is done; b holds the
\* edited text and a is gone.
C5_Witness ==
  /\ JustCompletedUpdate
  /\ Path(Last.path) = <<NameA>> /\ Last.new_path = NameB
  /\ fs[<<NameB>>] = FileNode(<<"x", "\n", "Y", "\n", "z", "\n">>)
  /\ fs[<<NameA>>] = NoNode

\* C6: a Delete fails when its target does not exist and when it exists but
\* is not a regular file, changing nothing on the filesystem either time;
\* only a regular file is removed.
C6_DeleteOnlyRegularFiles ==
  [][ (InLoop /\ Op.kind = "delete") =>
        LET loc == Path(Op.path)
        IN IF KindOf(fs, loc) = "none"
           THEN /\ pc' = "failed"
                /\ error' = PatchError("Cannot delete missing file", Op.path)
                /\ fs' = fs
           ELSE IF KindOf(fs, loc) # "file"
           THEN /\ pc' = "failed"
                /\ error' = PatchError("Cannot delete non-file path", Op.path)
                /\ fs' = fs
           ELSE /\ pc' = "apply" /\ error' = NoError
                /\ fs' = [fs EXCEPT ![loc] = NoNode] ]_vars

\* Witness of C6: a Delete of a directory has failed.
C6_Witness ==
  /\ pc = "failed" /\ Applying
  /\ Op.kind = "delete"
  /\ error.msg = "Cannot delete non-file path"
  /\ KindOf(fs, Path(Op.path)) = "dir"

\* The first non-blank line of the text, trimmed, is the Begin marker.
FirstNonBlankIsBegin ==
  LET ls == normalize_lines(text)
      i == SkipBlank(ls, 0)
  IN i < Len(ls) /\ Strip(ls[i + 1]) = BEGIN

\* Some line of the text, trimmed, is the End marker.
HasEndLine ==
  LET ls == normalize_lines(text)
  IN \E i \in 1..Len(ls) : Strip(ls[i]) = END

\* parse_patch has returned its operations.
Returned == pc \in {"apply", "rename", "done"}

\* C7: parse_patch fails with a format error, returning nothing, when the
\* first non-blank line is not the Begin marker (trimmed), when a non-blank
\* top-level line is neither the End marker nor an Add File, Delete File or
\* Update File directive, and when the input ends before an End marker; and
\* it returns the operations accumulated so far as soon as it meets the End
\* marker at top level.
C7_ParseFailuresAndReturn ==
  /\ [] ( /\ ~FirstNonBlankIsBegin => pc \in {"start", "failed"}
          /\ ~HasEndLine => ~Returned
          /\ (pc = "failed" /\ ~Applying)
             => error.type = "PatchError" /\ fs = fs0 /\ applied = <<>> )
  /\ [][ /\ (pc = "start" /\ ~FirstNonBlankIsBegin)
            => /\ pc' = "failed"
               /\ error' = PatchError("Patch must start with '*** Begin Patch'", None)
         /\ ( /\ IsDirectiveLine
              /\ ~StartsWith(Row, ADD) /\ ~StartsWith(Row, DELETE)
              /\ ~StartsWith(Row, UPDATE) )
            => /\ pc' = "failed"
               /\ error' = PatchError("Unsupported patch directive", Row)
         /\ (pc = "top" /\ AtEnd)
            => /\ pc' = "failed"
               /\ error' = PatchError("Patch missing '*** End Patch'", None)
         /\ (pc = "top" /\ ~AtEnd /\ Strip(Row) = END)
            => /\ pc' = "apply"
               /\ operations' = operations
               /\ error' = NoError ]_vars

\* Witness of C7: an unsupported line ended the parse after an operation had
\* been accumulated.
C7_Witness ==
  /\ pc = "failed" /\ ~Applying
  /\ error.msg = "Unsupported patch directive"
  /\ operations # <<>>

\* C8: every document parse_patch returns is a non-empty sequence of
\* operations. 
C8_ReturnedDocumentNonEmpty == Returned => operations # <<>>

\* C9: in the body of an Update, a line equal to "*** End of File" is
\* consumed and discarded: the header and the raw lines of the hunk at hand
\* and the closed hunks stay as they are, the same Update goes on with the
\* next line and no error is raised.
C9_EndOfFileLineDiscarded ==
  [][ (pc = "update" /\ ~AtEnd /\ Row = END_OF_FILE)
      => /\ pc' = "update"
         /\ parser'.idx = parser.idx + 1
         /\ parser'.current_header = parser.current_header
         /\ parser'.current_lines = parser.current_lines
         /\ parser'.hunks = parser.hunks
         /\ operations' = operations
         /\ error' = NoError ]_vars

\* C10: an I/O failure during application (creating a parent directory,
\* reading or writing a file, renaming) ends main with a PatchError, the
\* error main reports as one diagnostic, never with another kind of error.
C10_IoFailuresArePatchErrors == pc = "failed" => error.type = "PatchError"

\* A file whose name starts with a dot.
DotFile(p) == ~IsDir(p) /\ Head(p[Len(p)]) = "."

\* The file p has a line in the returned lines.
Listed(p) ==
  \E i \in 1..Len(tree.lines) :
    tree.lines[i].path = JoinSlash(p) /\ ~tree.lines[i].is_dir

\* No option leaves anything out and everything can be read.
Unfiltered ==
  /\ tree.options.extensions = <<>>
  /\ tree.options.ignore_paths = {}
  /\ ~tree.options.use_gitignore
  /\ tree.options.max_depth = <<>>
  /\ tree.unreadable = {}

\* The files the listing is to have: every readable file, the dot-prefixed
\* ones only with show_hidden.
ShownFiles ==
  { p \in tree.present :
      ~IsDir(p) /\ LinesIn(p) # <<>> /\ (tree.show_hidden \/ ~DotFile(p)) }

RECURSIVE TotalLines(_)
TotalLines(S) ==
  IF S = {} THEN 0
  ELSE LET p == CHOOSE q \in S : TRUE IN LinesIn(p)[1] + TotalLines(S \ {p})

\* C11: collect_lines treats .DS_Store like any other dotfile: with
\* show_hidden false no dot-prefixed file, .DS_Store included, is in the
\* returned lines or in the files and totalLoc statistics; with show_hidden
\* true every dot-prefixed file, .DS_Store included, is in the lines and
\* counted in the statistics.
C11_DsStoreLikeOtherDotfiles ==
  (tree.pc = "returned" /\ Unfiltered)
  => /\ \A p \in tree.present :
          (DotFile(p) /\ LinesIn(p) # <<>>) => (Listed(p) <=> tree.show_hidden)
     /\ tree.stats.files = Cardinality(ShownFiles)
     /\ tree.stats.totalLoc = TotalLines(ShownFiles)

\* find_sequence has been called with a non-empty seq that fits in lines and
\* is scanning, has found a position, or has found none.
Scanned ==
  \/ upd.pc \in {"scan", "splice"} /\ upd.original # <<>>
  \/ upd.pc = "failed" /\ upd.error.msg = "Failed to match patch hunk context"

\* len(lines) - len(seq)
MaxStartNow == Len(upd.lines) - Len(upd.original)

\* The hint clamped into [0, max_start]; 0 without a hint.
ClampedHint ==
  IF upd.start_hint = <<>> THEN 0
  ELSE IF upd.start_hint[1] > MaxStartNow THEN MaxStartNow
  ELSE IF upd.start_hint[1] < 0 THEN 0 ELSE upd.start_hint[1]

\* h, h+1, .., max_start, 0, 1, .., h-1
ScanOrder == [i \in 1..(MaxStartNow + 1) |-> (ClampedHint + i - 1) % (MaxStartNow + 1)]

\* The block looked for stands at position p of the lines, line for line.
MatchesAt(p) ==
  /\ p + Len(upd.original) <= Len(upd.lines)
  /\ \A i \in 1..Len(upd.original) : upd.lines[p + i] = upd.original[i]

Matching == {p \in 0..MaxStartNow : MatchesAt(p)}

Lowest(S) == CHOOSE p \in S : \A q \in S : p <= q

\* C12: for a non-empty needle that fits, find_sequence examines the start
\* positions 0..max_start each at most once, in the order h, h+1, ..,
\* max_start, 0, .., h-1 where h is the hint clamped into [0, max_start] (0
\* without a hint), all of them when none matches; it returns the first
\* position in that order whose slice equals the needle: the lowest matching
\* position >= h if there is one, otherwise the lowest matching position.
C12_ScanOrderAndFirstMatch ==
  Scanned =>
    /\ upd.examined = SubSeq(ScanOrder, 1, Len(upd.examined))
    /\ \A p \in 0..MaxStartNow : \E i \in 1..Len(ScanOrder) : ScanOrder[i] = p
    /\ upd.pc = "scan" =>
         /\ upd.positions = ScanOrder
         /\ Len(upd.examined) = upd.pi - 1
         /\ \A i \in 1..Len(upd.examined) : ~MatchesAt(upd.examined[i])
    /\ upd.pc = "failed" => upd.examined = ScanOrder /\ Matching = {}
    /\ upd.pc = "splice" =>
         /\ upd.examined # <<>>
         /\ upd.idx = upd.examined[Len(upd.examined)]
         /\ MatchesAt(upd.idx)
         /\ \A i \in 1..(Len(upd.examined) - 1) : ~MatchesAt(upd.examined[i])
         /\ upd.idx = IF \E p \in Matching : p >= ClampedHint
                      THEN Lowest({p \in Matching : p >= ClampedHint})
                      ELSE Lowest(Matching)

\* Witness of C12: with a hint above 0 the scan went round past max_start
\* and returned a position below the hint.
C12_Witness ==
  /\ upd.pc = "splice" /\ upd.original # <<>>
  /\ upd.start_hint # <<>>
  /\ upd.idx < ClampedHint
  /\ Len(upd.examined) >= 2

\* find_sequence has ended for a non-empty seq: it returned a position or
\* raised one of its two errors.
FindEnded ==
  \/ upd.pc = "splice" /\ upd.original # <<>>
  \/ /\ upd.pc = "failed"
     /\ upd.error.msg \in {"Patch hunk longer than target file",
                           "Failed to match patch hunk context"}

\* The two errors of find_sequence are raised exactly in their cases.
FindErrorsExact ==
  FindEnded =>
    /\ upd.original # <<>>
    /\ upd.error = PatchError("Patch hunk longer than target file", None)
         <=> Len(upd.original) > Len(upd.lines)
    /\ upd.error = PatchError("Failed to match patch hunk context", None)
         <=> (Len(upd.original) <= Len(upd.lines) /\ Matching = {})
    /\ upd.pc = "failed" <=> upd.error # NoError

\* The block stands somewhere in the lines.
Occurs(block, lines) ==
  \E p \in 0..(Len(lines) - Len(block)) :
    \A i \in 1..Len(block) : lines[p + i] = block[i]

\* The lines of the file as the n-th application left it.
LinesWritten(n) == SplitLines(ReadText(upd.written[n]))

\* The original block of hunk j of the Update.
OriginalOf(j) == decode_hunk_lines(upd.hunks[j].lines).original

\* The Update has been applied twice in a row without an error.
AppliedTwice == upd.pc = "done" /\ upd.updates = 2

\* C13 as claimed: for a non-empty needle find_sequence raises the "longer
\* than target file" error exactly when the needle is longer than the
\* haystack and the "failed to match" error exactly when the needle fits and
\* occurs nowhere, whatever the hint; and the second application of an
\* Update fails whenever the first left no occurrence of the original block
\* of one of its hunks.
C13_SecondApplicationFailsForAnyHunk ==
  /\ FindErrorsExact
  /\ AppliedTwice =>
       \A j \in 1..Len(upd.hunks) :
         OriginalOf(j) # <<>> => Occurs(OriginalOf(j), LinesWritten(1))

\* C13 as amended: the same errors in the same cases; and the second
\* application of an Update fails whenever the first left no occurrence of
\* the original block of its first hunk.
C13_SecondApplicationFailsForFirstHunk ==
  /\ FindErrorsExact
  /\ AppliedTwice =>
       (OriginalOf(1) # <<>> => Occurs(OriginalOf(1), LinesWritten(1)))

\* Witness of C13: the second application failed to match the block of the
\* first hunk, which the first application had taken out of the file.
C13_Witness ==
  /\ upd.pc = "failed" /\ upd.updates = 1 /\ upd.k = 1
  /\ upd.error.msg = "Failed to match patch hunk context"
  /\ ~Occurs(OriginalOf(1), LinesWritten(1))
  /\ Len(upd.lines) >= 1

\* The hunk before the one at hand has just been spliced in.
JustSpliced == upd.pc = "loop" /\ upd.k > 1

\* C14: for an empty needle find_sequence never fails and returns the hint
\* clamped into [0, len(lines)] when there is a hint and len(lines) when
\* there is none; so a hunk with an empty original block, a non-empty
\* replacement and no line number in its header puts its replacement after
\* the last line and keeps every line there was.
C14_EmptyNeedleAppends ==
  /\ (upd.pc = "splice" /\ upd.original = <<>>) =>
       /\ upd.error = NoError
       /\ upd.examined = <<>>
       /\ upd.idx = IF upd.start_hint = <<>> THEN Len(upd.lines)
                    ELSE IF upd.start_hint[1] < 0 THEN 0
                    ELSE IF upd.start_hint[1] > Len(upd.lines) THEN Len(upd.lines)
                    ELSE upd.start_hint[1]
  /\ ( /\ upd.pc = "failed"
       /\ upd.error.msg \in {"Patch hunk longer than target file",
                             "Failed to match patch hunk context"} )
     => upd.original # <<>>
  /\ ( /\ JustSpliced
       /\ upd.original = <<>> /\ upd.replacement # <<>>
       /\ upd.hunks[upd.k - 1].original_start = <<>> )
     => upd.lines = upd.before \o upd.replacement

\* Witness of C14: a hunk without a line number and with an empty original
\* block has put its lines after the lines of a file that was not empty.
C14_Witness ==
  /\ JustSpliced
  /\ upd.original = <<>> /\ upd.replacement # <<>>
  /\ upd.hunks[upd.k - 1].original_start = <<>>
  /\ upd.before # <<>>
  /\ upd.lines = upd.before \o upd.replacement

\* The number of raw lines of hunk j tagged with the character c.
Tagged(j, c) ==
  Cardinality({i \in 1..Len(upd.hunks[j].lines) :
                 upd.hunks[j].lines[i] # <<>> /\ upd.hunks[j].lines[i][1] = c})

\* len(replacement) - len(original) of hunk j: the lines it adds less the
\* lines it takes away.
Growth(j) == Tagged(j, "+") - Tagged(j, "-")

RECURSIVE DeltaBefore(_)
\* The sum of the growth of the hunks before hunk k that have a line number.
DeltaBefore(k) ==
  IF k <= 1 THEN 0
  ELSE DeltaBefore(k - 1)
       + (IF upd.hunks[k - 1].original_start # <<>> THEN Growth(k - 1) ELSE 0)

\* C15: within one Update line_delta starts at 0 and, when hunk k is about
\* to be located, is the sum of len(replacement) - len(original) over the
\* earlier hunks of this Update that have a parsed original-start; the hint
\* for hunk k is max(original_start - 1 + line_delta, 0) if the hunk has a
\* parsed original-start and absent otherwise; hunks without one get no hint
\* and leave line_delta alone, and line_delta starts again at 0 in the next
\* Update.
C15_LineDeltaAndHint ==
  /\ upd.pc \in {"loop", "find", "scan", "splice"} => upd.line_delta = DeltaBefore(upd.k)
  /\ upd.pc \in {"find", "scan", "splice"} =>
       LET start == HunkAtHand.original_start
       IN IF start = <<>> THEN upd.start_hint = <<>>
          ELSE /\ upd.start_hint # <<>>
               /\ upd.start_hint[1] = (IF start[1] - 1 + upd.line_delta > 0
                                       THEN start[1] - 1 + upd.line_delta ELSE 0)

\* Witness of C15: in the second application of the Update, whose first hunk
\* puts in three lines, the second hunk is looked for three lines below the
\* line number of its header.
C15_Witness ==
  /\ upd.pc = "find" /\ upd.k = 2 /\ upd.updates = 1
  /\ upd.hunks[1].original_start # <<>>
  /\ Growth(1) = 3
  /\ upd.line_delta = 3
  /\ upd.hunks[2].original_start # <<>>
  /\ upd.start_hint = <<upd.hunks[2].original_start[1] - 1 + 3>>

\* The raw line is the "\ No newline at end of file" kind: it starts with a
\* backslash and a space.
IsMarker(row) == Len(row) >= 2 /\ row[1] = "\\" /\ row[2] = " "

\* The raw line is empty or has a first character other than " ", "-", "+".
IsBadRow(row) == row = <<>> \/ (~IsMarker(row) /\ row[1] \notin {" ", "-", "+"})

\* The remainders, in order, of the raw lines whose tag is in the set tags.
Remainders(rows, tags) ==
  LET sel == SelectSeq(rows, LAMBDA r : r # <<>> /\ ~IsMarker(r) /\ r[1] \in tags)
  IN [i \in 1..Len(sel) |-> SubSeq(sel[i], 2, Len(sel[i]))]

DecodeErrors == {"Malformed hunk line", "Unsupported hunk prefix"}

\* C16: decode_hunk_lines goes through the raw lines in order: a line that
\* starts with backslash-space is skipped, a line tagged " " gives its
\* remainder to original and replacement, "-" to original only, "+" to
\* replacement only, and an empty line or any other first character makes
\* the decode fail with a format error; so original is the remainders of the
\* " " and "-" lines in order and replacement those of the " " and "+" lines.
C16_DecodeByTag ==
  /\ upd.pc = "find" =>
       /\ \A i \in 1..Len(HunkAtHand.lines) : ~IsBadRow(HunkAtHand.lines[i])
       /\ upd.original = Remainders(HunkAtHand.lines, {" ", "-"})
       /\ upd.replacement = Remainders(HunkAtHand.lines, {" ", "+"})
  /\ (upd.pc = "failed" /\ upd.error.msg \in DecodeErrors) =>
       /\ upd.error.type = "PatchError"
       /\ \E i \in 1..Len(HunkAtHand.lines) : IsBadRow(HunkAtHand.lines[i])
  /\ ( /\ upd.pc = "failed" /\ upd.k <= Len(upd.hunks) /\ upd.file # <<>>
       /\ upd.error.msg \notin DecodeErrors )
     => \A i \in 1..Len(HunkAtHand.lines) : ~IsBadRow(HunkAtHand.lines[i])

\* Witness of C16: a hunk with a marker line and a tagged line has been
\* decoded, the marker left out.
C16_Witness ==
  /\ upd.pc = "find"
  /\ \E i \in 1..Len(HunkAtHand.lines) : IsMarker(HunkAtHand.lines[i])
  /\ Len(upd.original) + Len(upd.replacement) >= 1

\* C17: main parses the whole text before it applies anything: as long as
\* apply_operations has not begun, and so whenever parse_patch fails, the
\* filesystem is as main found it, also when well-formed operations precede
\* the offending line.  The parser does not look into hunk lines: any body
\* line of an Update that is neither a header nor a directive, a blank one
\* included, is stored as a raw line of the hunk, and the format errors of
\* hunk lines are raised only during application.
C17_ParseWholeTextFirst ==
  /\ [] ( /\ ~Applying => fs = fs0 /\ applied = <<>>
          /\ (pc = "failed" /\ error.msg \in DecodeErrors) => Applying )
  /\ [][ (pc = "update" /\ ~BodyEnds /\ ~StartsWith(Row, AT_AT))
         => /\ parser'.current_lines = Append(parser.current_lines, Row)
            /\ pc' = "update"
            /\ error' = NoError
            /\ fs' = fs ]_vars

\* Witness of C17: the parse failed at a payload line without "+" after a
\* Delete of a file that is there had been read, and the file is still
\* there.
C17_Witness ==
  /\ pc = "failed" /\ ~Applying
  /\ error.msg = "Added file lines must start with '+'"
  /\ operations # <<>> /\ operations[1].kind = "delete"
  /\ IsFile(fs0, Path(operations[1].path))
  /\ fs = fs0

=============================================================================
